---- MODULE Spec2Model ----
(***************************************************************************)
(* A model of pyssari.py: the Messari API wrapper (Pyssari), the price     *)
(* history table builder (get_assets_price_history_pd), the metrics table  *)
(* builder (get_assets_metrics_pd) and the helpers they use (flatten,      *)
(* merge_dicts, all_eq, valid_date).                                       *)
(*                                                                         *)
(* Representation of Python values:                                        *)
(*   None                 [none |-> TRUE]                                  *)
(*   a date string        [y |-> 2021, m |-> 1, d |-> 5]  ("2021-01-05")   *)
(*   an asset key         a string, "A"                                    *)
(*   a key of a record    a sequence of one-character strings, <<"p">>     *)
(*   a dict (ordered)     a sequence of <<key, value>> pairs, keys unique  *)
(*   a list               [list |-> <<...>>]                               *)
(*   a raised exception   [raise |-> "IndexError"]                         *)
(***************************************************************************)
EXTENDS Integers, Sequences, FiniteSets

VARIABLES
    list_of_assets, \* price: the asset keys passed by the caller
    start_date,     \* price: the start_date argument
    end_date,       \* price: the end_date argument
    asset_data,     \* price: the values fetched so far (the map() of line 213)
    requests,       \* the HTTP requests issued through the session, in order
    responses,      \* the HTTP responses received, in order
    padded,         \* price: whether the padding branch of line 248 was taken
    result,         \* the outcome of the call: pending, a raise or a table
    flatten_df,     \* metrics: the flatten_df argument
    D,              \* metrics: the dict of per-asset records built so far
    d,              \* flatten: the nested mapping passed to flatten
    flat            \* flatten: the mapping flatten returned

vars == <<list_of_assets, start_date, end_date, asset_data, requests, responses,
          padded, result, flatten_df, D, d, flat>>

priceVars == <<list_of_assets, start_date, end_date, asset_data, padded>>
metricsVars == <<flatten_df, D>>
flattenVars == <<d, flat>>

----------------------------------------------------------------------------
(* Bounds of the model *)

MaxAssets == 3      \* longest asset list
MaxLen == 2         \* longest fetched series
MaxDepth == 2       \* deepest nested mapping given to flatten
MaxMetricAssets == 2 \* longest asset list of a metrics call

----------------------------------------------------------------------------
(* Python values *)

None == [none |-> TRUE]
Pending == [pending |-> TRUE]
Raise(e) == [raise |-> e]

IsNone(x) == x = None
IsList(x) == "list" \in DOMAIN x
Raised(r) == "raise" \in DOMAIN r

Range(s) == {s[i] : i \in 1..Len(s)}

Max(S) == CHOOSE x \in S : \A y \in S : y <= x

Zeros(n) == [i \in 1..n |-> 0]

(* An ordered dict is a sequence of <<key, value>> pairs with unique keys. *)
DictKeys(dict) == [i \in 1..Len(dict) |-> dict[i][1]]
HasKey(dict, k) == \E i \in 1..Len(dict) : dict[i][1] = k
DictGet(dict, k) == dict[CHOOSE i \in 1..Len(dict) : dict[i][1] = k][2]

(* dict[k] = v : an existing key keeps its position and takes the new value,
   a new key is appended. *)
DictSet(dict, k, v) ==
    IF HasKey(dict, k)
    THEN [i \in 1..Len(dict) |-> IF dict[i][1] = k THEN <<k, v>> ELSE dict[i]]
    ELSE Append(dict, <<k, v>>)

(* out.update(other) *)
RECURSIVE DictUpdate(_, _)
DictUpdate(out, other) ==
    IF other = <<>> THEN out
    ELSE DictUpdate(DictSet(out, Head(other)[1], Head(other)[2]), Tail(other))

(* dict(items) for a list of pairs: later pairs win. *)
DictOf(items) == DictUpdate(<<>>, items)

----------------------------------------------------------------------------
(* helper/convenience functions *)

all_eq_strict(iterator) == Cardinality(Range(iterator)) < 1
all_eq(iterator) == Cardinality(Range(iterator)) <= 1

(* The loop of merge_dicts: out.update(d) for each d, in order. *)
RECURSIVE UpdateAll(_, _)
UpdateAll(out, dicts) ==
    IF dicts = <<>> THEN out
    ELSE UpdateAll(DictUpdate(out, Head(dicts)), Tail(dicts))

RECURSIVE Reversed(_)
Reversed(s) == IF s = <<>> THEN <<>> ELSE Append(Reversed(Tail(s)), Head(s))

merge_dicts_reversed(dicts) == UpdateAll(<<>>, Reversed(dicts))
merge_dicts(dicts) == UpdateAll(<<>>, dicts)

IsLeap(y) == (y % 4 = 0 /\ y % 100 # 0) \/ y % 400 = 0

DaysInMonth(y, m) ==
    IF m = 2 THEN (IF IsLeap(y) THEN 29 ELSE 28)
    ELSE IF m \in {4, 6, 9, 11} THEN 30 ELSE 31

(* datetime.strptime(date_text, "%Y-%m-%d") succeeds *)
Strptime_ok(date_text) ==
    /\ DOMAIN date_text = {"y", "m", "d"}
    /\ date_text.y \in 1..9999
    /\ date_text.m \in 1..12
    /\ date_text.d \in 1..DaysInMonth(date_text.y, date_text.m)

valid_date(date_text) == Strptime_ok(date_text)

(* A nested mapping is a dict whose values are leaves [kind |-> .., v |-> ..]
   or mappings [map |-> dict]; isinstance(v, MutableMapping) is IsMapping. *)
IsMapping(v) == "map" \in DOMAIN v

(* The default separator of flatten, the string "_". *)
SEP == <<"_">>

(* "parent_key + sep + k if parent_key else k": an empty parent_key is falsy. *)
NewKey(parent_key, sep, k) ==
    IF parent_key # <<>> THEN parent_key \o sep \o k ELSE k

(* flatten: the loop over d.items() builds the list of items, and dict(items)
   keeps the last value of a repeated key. *)
RECURSIVE FlattenItems(_, _, _)
FlattenItems(mapping, parent_key, sep) ==
    IF mapping = <<>> THEN <<>>
    ELSE LET k == Head(mapping)[1]
             v == Head(mapping)[2]
             new_key == NewKey(parent_key, sep, k)
         IN  (IF IsMapping(v)
              THEN DictOf(FlattenItems(v.map, new_key, sep))
              ELSE << <<new_key, v>> >>)
             \o FlattenItems(Tail(mapping), parent_key, sep)

flatten(mapping, parent_key, sep) == DictOf(FlattenItems(mapping, parent_key, sep))

----------------------------------------------------------------------------
(* The remote API, as seen through requests.Session *)

(* One point per day (interval="1d"), timestamps in milliseconds. *)
DAY_MS == 24 * 60 * 60 * 1000

AssetKeys == {"A", "B"}

(* The asset lists the caller may pass, the empty list included. *)
RECURSIVE ListsOfLen(_)
ListsOfLen(n) ==
    IF n = 0 THEN {<<>>}
    ELSE {Append(l, k) : l \in ListsOfLen(n - 1), k \in AssetKeys}

AssetLists == UNION {ListsOfLen(n) : n \in 0..MaxAssets}

(* Two price histories over the days 0..MaxLen-1; the API returns the most
   recent n points of one of them: a series is a list of [timestamp_ms, value]
   points, ascending by timestamp, and an asset with less history has a
   shorter list ending on the same day. *)
Histories == {0, 5}

Price(h, day) == 10 * (day + 1) + h

HistoryTail(h, n) ==
    [j \in 1..n |-> <<DAY_MS * (MaxLen - n + j - 1), Price(h, MaxLen - n + j - 1)>>]

AllSeries == {HistoryTail(h, n) : h \in Histories, n \in 0..MaxLen}

(* JSON bodies of the time-series endpoint: no "data" key (an error body),
   "data" without "values" or with "values": null, and "data.values" a list. *)
TimeseriesBodies ==
    {[status |-> "error"]}
    \cup {[data |-> [values |-> None]]}
    \cup {[data |-> [values |-> [list |-> s]]] : s \in AllSeries}

(* session.request(...) either raises (network failure, timeout, and
   response.json() on a non-JSON body) or yields a JSON body. *)
TransportFailure == [transport |-> "error"]

TimeseriesResponses == {TransportFailure} \cup {[json |-> b] : b \in TimeseriesBodies}

(* dict.get(key): the value, or None when the key is absent.  Calling .get on
   None raises AttributeError, which the callers below test with IsNone. *)
Get(body, key) == IF key \in DOMAIN body THEN body[key] ELSE None

----------------------------------------------------------------------------
(* Pyssari *)

(* _send_message / _get: the decoded JSON, or the transport error raised. *)
_send_message(response) ==
    IF "transport" \in DOMAIN response THEN Raise("TransportError")
    ELSE [ret |-> response.json]

(* The request get_asset_timeseries issues for get_asset_price_history. *)
get_asset_timeseries(asset_key, metric_id, params) ==
    [method |-> "GET", asset |-> asset_key, metric |-> metric_id,
     endpoint |-> "time-series", params |-> params]

(* The request get_asset_metrics issues. *)
get_asset_metrics(asset_key) ==
    [method |-> "GET", asset |-> asset_key, metric |-> "",
     endpoint |-> "metrics", params |-> [fields |-> None]]

----------------------------------------------------------------------------
(* get_asset_price_history *)

(* date.today() and date.today() - timedelta(days=365), formatted *)
Today == [y |-> 2021, m |-> 6, d |-> 15]
YearAgo == [y |-> Today.y - 1, m |-> Today.m, d |-> Today.d]

(* "if not end_date": None (and the empty string) are replaced by a default *)
EffectiveEnd(e) == IF IsNone(e) THEN Today ELSE e
EffectiveStart(s) == IF IsNone(s) THEN YearAgo ELSE s

(* The two assert statements that precede the request. *)
DatesAccepted_start_only(s, e) == valid_date(EffectiveStart(s))
DatesAccepted(s, e) ==
    valid_date(EffectiveStart(s)) /\ valid_date(EffectiveEnd(e))

PriceRequest(asset_key, s, e) ==
    get_asset_timeseries(asset_key, "price",
        [columns |-> "close", interval |-> "1d",
         start |-> EffectiveStart(s), end |-> EffectiveEnd(e)])

(* .get('data').get('values') on the decoded response *)
ExtractValues(json) ==
    IF IsNone(Get(json, "data")) THEN Raise("AttributeError")
    ELSE [ret |-> Get(Get(json, "data"), "values")]

(* What get_asset_price_history does with the response to its request. *)
PriceHistoryOutcome(response) ==
    IF Raised(_send_message(response)) THEN _send_message(response)
    ELSE ExtractValues(_send_message(response).ret)

----------------------------------------------------------------------------
(* get_assets_price_history_pd *)

(* The caller's (start_date, end_date): absent, valid, and invalid in the
   month ("2021-13-40") or in the day of the month ("2021-02-30"). *)
DatePairs ==
    { <<None, None>>,
      <<[y |-> 2021, m |-> 1, d |-> 1], [y |-> 2021, m |-> 2, d |-> 1]>>,
      <<[y |-> 2021, m |-> 13, d |-> 40], [y |-> 2021, m |-> 2, d |-> 1]>>,
      <<[y |-> 2021, m |-> 1, d |-> 1], [y |-> 2021, m |-> 13, d |-> 40]>>,
      <<[y |-> 2021, m |-> 1, d |-> 1], [y |-> 2021, m |-> 2, d |-> 30]>>,
      <<None, [y |-> 2021, m |-> 13, d |-> 40]>> }

(* np.asarray(x)[:, c] needs a two-dimensional array: None gives a 0-d array
   and [] a 1-d array, and both raise IndexError when indexed with [:, c]. *)
Indexable(x) == IsList(x) /\ x.list # <<>>

NpColumn(x, c) == [j \in 1..Len(x.list) |-> x.list[j][c + 1]]

(* datetime.fromtimestamp(int(t/1000)).strftime(DATE_FMT), in UTC; the days
   of the model all fall in January 1970. *)
FormatTimestamp(t) ==
    [y |-> 1970, m |-> 1, d |-> ((t \div 1000) \div 86400) + 1]

ExtractDates(first) ==
    [j \in 1..Len(first.list) |-> FormatTimestamp(NpColumn(first, 0)[j])]

(* prep_data: one single-key dict {asset: value column} per list entry *)
PrepData(assets, data) ==
    [i \in 1..Len(assets) |-> << <<assets[i], NpColumn(data[i], 1)>> >>]

(* np.concatenate([np.zeros(max_len - len(v)), v]) *)
PadColumn_append(v, max_len) == v \o Zeros(max_len - Len(v))
PadColumn(v, max_len) == Zeros(max_len - Len(v)) \o v

Lens(data) == [i \in 1..Len(data) |-> Len(data[i][2])]

PadBranch(data) == ~all_eq(Lens(data))

PadData(data) ==
    [i \in 1..Len(data) |->
        <<data[i][1], PadColumn(data[i][2], Max(Range(Lens(data))))>>]

(* pd.DataFrame(data, index=dates): every column must be as long as the
   index, else pandas raises ValueError. *)
DataFrame(data, index) ==
    IF \E i \in 1..Len(data) : Len(data[i][2]) # Len(index)
    THEN Raise("ValueError")
    ELSE [table |-> [index |-> index, columns |-> data]]

(* Lines 222-255 for a non-empty asset_data. *)
AlignFetched(assets, fetched) ==
    IF \E i \in 1..Len(fetched) : ~Indexable(fetched[i])
        THEN [result |-> Raise("IndexError"), padded |-> FALSE]
    ELSE LET dates == ExtractDates(fetched[1])
             data == merge_dicts(PrepData(assets, fetched))
         IN  IF PadBranch(data)
             THEN [result |-> DataFrame(PadData(data), dates), padded |-> TRUE]
             ELSE [result |-> DataFrame(data, dates), padded |-> FALSE]

(* Lines 222-255, once every asset has been fetched: asset_data[0] raises
   IndexError on an empty list. *)
Align_empty_table(assets, fetched) ==
    IF fetched = <<>>
    THEN [result |-> DataFrame(<<>>, <<>>), padded |-> FALSE]
    ELSE AlignFetched(assets, fetched)
Align(assets, fetched) ==
    IF fetched = <<>>
    THEN [result |-> Raise("IndexError"), padded |-> FALSE]
    ELSE AlignFetched(assets, fetched)

IdleMetrics == flatten_df = FALSE /\ D = <<>>
IdleFlatten == d = <<>> /\ flat = Pending

InitPrice ==
    /\ list_of_assets \in AssetLists
    /\ \E dates \in DatePairs : start_date = dates[1] /\ end_date = dates[2]
    /\ asset_data = <<>>
    /\ requests = <<>>
    /\ responses = <<>>
    /\ padded = FALSE
    /\ result = Pending
    /\ IdleMetrics
    /\ IdleFlatten

(* One call of get_asset_price_history by the map() of line 213, for the next
   list entry: the asserts, then one request, then the extraction. *)
FetchPrice ==
    /\ result = Pending
    /\ Len(asset_data) < Len(list_of_assets)
    /\ IF ~DatesAccepted(start_date, end_date)
       THEN /\ result' = Raise("AssertionError")
            /\ UNCHANGED <<requests, responses, asset_data>>
       ELSE \E response \in TimeseriesResponses :
            /\ requests' = Append(requests,
                   PriceRequest(list_of_assets[Len(asset_data) + 1], start_date, end_date))
            /\ responses' = Append(responses, response)
            /\ IF Raised(PriceHistoryOutcome(response))
               THEN /\ result' = PriceHistoryOutcome(response)
                    /\ UNCHANGED asset_data
               ELSE /\ asset_data' = Append(asset_data, PriceHistoryOutcome(response).ret)
                    /\ UNCHANGED result
    /\ UNCHANGED <<list_of_assets, start_date, end_date, padded>>
    /\ UNCHANGED <<metricsVars, flattenVars>>

(* The rest of get_assets_price_history_pd, after the last fetch. *)
AlignPrice ==
    /\ result = Pending
    /\ Len(asset_data) = Len(list_of_assets)
    /\ result' = Align(list_of_assets, asset_data).result
    /\ padded' = Align(list_of_assets, asset_data).padded
    /\ UNCHANGED <<list_of_assets, start_date, end_date, asset_data, requests, responses>>
    /\ UNCHANGED <<metricsVars, flattenVars>>

NextPrice == FetchPrice \/ AlignPrice

SpecPrice == InitPrice /\ [][NextPrice]_vars

----------------------------------------------------------------------------
(* Properties of get_assets_price_history_pd, under SpecPrice *)

IsTable(r) == "table" \in DOMAIN r
Finished == result # Pending
Columns == result.table.columns
Index == result.table.index

(* Every list entry was fetched and holds a series of length >= 1. *)
AllSeriesFetched ==
    /\ list_of_assets # <<>>
    /\ Len(asset_data) = Len(list_of_assets)
    /\ \A i \in 1..Len(asset_data) : IsList(asset_data[i]) /\ Len(asset_data[i].list) >= 1

SeriesLen(i) == Len(asset_data[i].list)
SeriesValues(i) == [j \in 1..SeriesLen(i) |-> asset_data[i].list[j][2]]

(* The list entry whose series the table keeps for key k: the last one. *)
KeptEntry(k) ==
    CHOOSE i \in 1..Len(list_of_assets) :
        /\ list_of_assets[i] = k
        /\ \A j \in (i + 1)..Len(list_of_assets) : list_of_assets[j] # k

KeptEntries == {KeptEntry(k) : k \in Range(list_of_assets)}

ColumnOf(k) == DictGet(Columns, k)

DistinctKeys ==
    \A i, j \in 1..Len(list_of_assets) : list_of_assets[i] = list_of_assets[j] => i = j

(* C1: for a non-empty asset list (here: of distinct keys) whose entries all
   fetched a series of length >= 1, the call returns a table whose row count
   is the maximum series length and whose columns all have that many entries,
   whichever entry holds the longest series. *)
C1_RowCountIsMaxLength ==
    (Finished /\ AllSeriesFetched /\ DistinctKeys) =>
        /\ IsTable(result)
        /\ Len(Index) = Max({SeriesLen(i) : i \in 1..Len(asset_data)})
        /\ \A c \in 1..Len(Columns) : Len(Columns[c][2]) = Len(Index)

(* C2: in a returned table, the column of every asset whose series (the one
   the table keeps for its key) has length n below the maximum m is m - n
   zeros followed by the n values of the series, in order. *)
C2_ZerosPrepended ==
    IsTable(result) =>
        \A k \in Range(list_of_assets) :
            LET n == SeriesLen(KeptEntry(k))
                m == Max({SeriesLen(i) : i \in KeptEntries})
            IN  n < m =>
                    /\ HasKey(Columns, k)
                    /\ ColumnOf(k) = Zeros(m - n) \o SeriesValues(KeptEntry(k))

C2_Witness ==
    /\ IsTable(result)
    /\ list_of_assets = <<"A", "B">>
    /\ SeriesLen(1) = 2 /\ SeriesLen(2) = 1
    /\ ColumnOf("B") = <<0, SeriesValues(2)[1]>>

(* C3: when all fetched series have the same length, the call returns a table
   without taking the padding branch, and every column equals the value
   column of the series kept for its key, position by position. *)
C3_EqualLengthsUnpadded ==
    (Finished /\ AllSeriesFetched
        /\ \A i, j \in 1..Len(asset_data) : SeriesLen(i) = SeriesLen(j)) =>
        /\ IsTable(result)
        /\ ~padded
        /\ \A k \in Range(list_of_assets) :
            HasKey(Columns, k) /\ ColumnOf(k) = SeriesValues(KeptEntry(k))

C3_Witness ==
    /\ IsTable(result)
    /\ ~padded
    /\ list_of_assets = <<"A", "B">>
    /\ SeriesLen(1) = 2 /\ SeriesLen(2) = 2
    /\ ColumnOf("A") # ColumnOf("B")

(* C6: with an empty asset list no request is ever issued, and the call ends
   by raising, never by returning a table. *)
C6_EmptyListRaises ==
    list_of_assets = <<>> =>
        /\ requests = <<>>
        /\ Finished => Raised(result)

C6_Witness == list_of_assets = <<>> /\ Finished /\ Raised(result) /\ requests = <<>>

(* The caller supplied a start or end date that is no calendar date. *)
BadDates == {[y |-> 2021, m |-> 13, d |-> 40], [y |-> 2021, m |-> 2, d |-> 30]}
InvalidDateSupplied == start_date \in BadDates \/ end_date \in BadDates

(* C7: with an invalid start or end date no request is ever issued, and the
   call ends by raising; for a non-empty list it is the date assertion that
   raises. *)
C7_InvalidDateNoRequest ==
    InvalidDateSupplied =>
        /\ requests = <<>>
        /\ Finished => Raised(result)
        /\ (Finished /\ list_of_assets # <<>>) => result = Raise("AssertionError")

C7_Witness ==
    /\ end_date \in BadDates
    /\ start_date \notin BadDates
    /\ list_of_assets # <<>>
    /\ result = Raise("AssertionError")
    /\ requests = <<>>

(* The fetch failed: a transport error, or a response without data.values. *)
FetchFailed(response) ==
    \/ "transport" \in DOMAIN response
    \/ /\ "json" \in DOMAIN response
       /\ \/ "data" \notin DOMAIN response.json
          \/ ~IsList(response.json.data.values)

(* C8: requests are issued one per list entry in list order, each after the
   previous response; after a failed fetch no further request is issued and
   the call ends by raising. *)
C8_FailureStopsRequests ==
    /\ Len(requests) = Len(responses)
    /\ \A i \in 1..Len(requests) : requests[i].asset = list_of_assets[i]
    /\ \A i \in 1..Len(responses) :
        FetchFailed(responses[i]) =>
            /\ Len(requests) = i
            /\ Finished => Raised(result)

(* The column of list entry i as the table lays it out: its values, padded
   at the front to the row count. *)
EntryColumn(i) == Zeros(Len(Index) - SeriesLen(i)) \o SeriesValues(i)

EntryDates(i) ==
    [j \in 1..SeriesLen(i) |->
        [y |-> 1970, m |-> 1, d |-> (asset_data[i].list[j][1] \div DAY_MS) + 1]]

OrderedAsGiven ==
    /\ DictKeys(Columns) = list_of_assets
    /\ \A i \in 1..Len(list_of_assets) : Columns[i][2] = EntryColumn(i)
    /\ Index = EntryDates(1)

(* C9 as stated: for every asset list, repeated keys included, the columns
   of the returned table are the list entries in order, each holding the series
   fetched for its entry, and the dates are those of the first entry. *)
C9_ColumnsFollowList == IsTable(result) => OrderedAsGiven

(* C9 amended: the same, for asset lists whose keys are pairwise distinct. *)
C9_DistinctKeysFollowList == (IsTable(result) /\ DistinctKeys) => OrderedAsGiven

C9_Witness ==
    /\ IsTable(result)
    /\ list_of_assets = <<"B", "A">>
    /\ SeriesLen(1) = 2 /\ SeriesLen(2) = 1
    /\ OrderedAsGiven

----------------------------------------------------------------------------
(* flatten as a function of its argument, under SpecFlatten *)

(* The keys of the nested mappings: the empty string and "a". *)
FlattenKeys == {<<>>, <<"a">>}

FlattenLeaves == {[kind |-> "int", v |-> 1], [kind |-> "int", v |-> 2]}

(* The dicts with keys in K (each at most once, in any order) and values in N. *)
OrderedDicts(K, N) ==
    UNION { { m \in [1..n -> K \X N] : \A i, j \in 1..n : m[i][1] = m[j][1] => i = j }
            : n \in 0..Cardinality(K) }

(* The nested mappings of at most the given depth; empty mappings included. *)
RECURSIVE NestedMappings(_)
NestedMappings(depth) ==
    IF depth = 0 THEN {}
    ELSE OrderedDicts(FlattenKeys,
            FlattenLeaves \cup {[map |-> m] : m \in NestedMappings(depth - 1)})

IdlePrice ==
    /\ list_of_assets = <<>>
    /\ start_date = None
    /\ end_date = None
    /\ asset_data = <<>>
    /\ padded = FALSE

InitFlatten ==
    /\ d \in NestedMappings(MaxDepth)
    /\ flat = Pending
    /\ requests = <<>>
    /\ responses = <<>>
    /\ result = Pending
    /\ IdlePrice
    /\ IdleMetrics

(* flat = flatten(d) *)
FlattenCall ==
    /\ flat = Pending
    /\ flat' = [ret |-> flatten(d, <<>>, SEP)]
    /\ UNCHANGED <<d, requests, responses, result, priceVars, metricsVars>>

NextFlatten == FlattenCall

SpecFlatten == InitFlatten /\ [][NextFlatten]_vars

(* Python's dict equality ignores order: a mapping as a function of its keys. *)
RECURSIVE AsFunction(_)
AsFunction(mapping) ==
    [k \in Range(DictKeys(mapping)) |->
        IF IsMapping(DictGet(mapping, k))
        THEN [map |-> AsFunction(DictGet(mapping, k).map)]
        ELSE DictGet(mapping, k)]

(* key.split(sep), for a one-character separator *)
RECURSIVE Split(_, _)
Split(key, sep) ==
    IF \A i \in 1..Len(key) : key[i] # sep[1] THEN <<key>>
    ELSE LET cut == CHOOSE i \in 1..Len(key) :
                        key[i] = sep[1] /\ \A j \in 1..(i - 1) : key[j] # sep[1]
         IN  <<SubSeq(key, 1, cut - 1)>> \o Split(SubSeq(key, cut + 1, Len(key)), sep)

(* Re-nesting a set of <<path, leaf>> entries: the entries under each first
   path component become that key's sub-mapping, a path of length 1 a leaf. *)
RECURSIVE RenestPaths(_)
RenestPaths(entries) ==
    [k \in {e[1][1] : e \in entries} |->
        IF \E e \in entries : e[1] = <<k>>
        THEN (CHOOSE e \in entries : e[1] = <<k>>)[2]
        ELSE [map |-> RenestPaths({<<Tail(e[1]), e[2]>> : e \in {x \in entries : x[1][1] = k}})]]

Renest(flattened, sep) ==
    RenestPaths({<<Split(flattened[i][1], sep), flattened[i][2]>> : i \in 1..Len(flattened)})

(* C4: for every nested mapping without the separator in its keys (empty
   sub-mappings and empty-string keys included), re-nesting flatten(d) by
   splitting each key on the separator gives back d. *)
C4_RoundTrip ==
    flat # Pending => Renest(flat.ret, SEP) = AsFunction(d)

----------------------------------------------------------------------------
(* get_assets_metrics_pd *)

(* JSON leaves of a metrics record, one of each kind; v is the number a
   numeric leaf holds. *)
NullLeaf == [kind |-> "null", v |-> 0]
MetricLeaves ==
    { NullLeaf,
      [kind |-> "str", v |-> 0],
      [kind |-> "bool", v |-> 1],
      [kind |-> "int", v |-> 7],
      [kind |-> "float", v |-> 3],
      [kind |-> "list", v |-> 0] }

NestedMetricLeaves == {NullLeaf, [kind |-> "int", v |-> 9]}

(* The "data" of a metrics response: an optional top-level field "p" and an
   optional group "m", empty or holding a field "p" ("m_p" once flattened). *)
MetricRecords ==
    { top \o group :
        top \in {<<>>} \cup {<< <<<<"p">>, x>> >> : x \in MetricLeaves},
        group \in {<<>>, << <<<<"m">>, [map |-> <<>>]>> >>}
                  \cup {<< <<<<"m">>, [map |-> << <<<<"p">>, y>> >>]>> >> : y \in NestedMetricLeaves} }

MetricsBodies ==
    {[status |-> "error"]}
    \cup {[data |-> None]}
    \cup {[data |-> [map |-> r]] : r \in MetricRecords}

MetricsResponses == {TransportFailure} \cup {[json |-> b] : b \in MetricsBodies}

MetricAssetLists == UNION {ListsOfLen(n) : n \in 0..MaxMetricAssets}

(* isinstance(v, int) or isinstance(v, float): bool is a subclass of int. *)
IsNumber(v) == v.kind \in {"int", "float", "bool"}

(* The two dict comprehensions of lines 284-291. *)
DropNulls(items) == SelectSeq(items, LAMBDA item : item[2] # NullLeaf)
KeepNumbers(items) == SelectSeq(items, LAMBDA item : IsNumber(item[2]))

IsFloatCell(v) == ~IsMapping(v) /\ v.kind = "float"
IsNumericCell(v) == ~IsMapping(v) /\ v.kind \in {"int", "float"}

AsFloat(v) == [kind |-> "float", v |-> v.v]

(* pd.Series(d): values that are all int or float share one dtype, float64
   as soon as one of them is a float; anything else keeps the objects. *)
pd_Series(items) ==
    IF /\ \A i \in 1..Len(items) : IsNumericCell(items[i][2])
       /\ \E i \in 1..Len(items) : IsFloatCell(items[i][2])
    THEN [i \in 1..Len(items) |-> <<items[i][1], AsFloat(items[i][2])>>]
    ELSE items

(* One iteration of the loop of lines 278-294 on the response received:
   the Series stored in D[asset], or the exception raised. *)
MetricsIteration(response, flatten_flag) ==
    IF Raised(_send_message(response)) THEN _send_message(response)
    ELSE IF "data" \notin DOMAIN _send_message(response).ret THEN Raise("KeyError")
    ELSE LET data == _send_message(response).ret.data
         IN  IF flatten_flag
             THEN IF IsNone(data) THEN Raise("AttributeError")
                  ELSE [ret |-> pd_Series(
                            KeepNumbers(DropNulls(flatten(data.map, <<>>, SEP))))]
             ELSE IF IsNone(data) THEN [ret |-> <<>>]
                  ELSE [ret |-> pd_Series(data.map)]

NaN == [nan |-> TRUE]

(* The cell of a column for a row label: the value, or NaN where the Series
   has no such label; a numeric column with a NaN in it becomes float64. *)
Cell_zero_filled(series, label, index) ==
    IF HasKey(series, label) THEN DictGet(series, label)
    ELSE [kind |-> "float", v |-> 0]
Cell(series, label, index) ==
    IF ~HasKey(series, label) THEN NaN
    ELSE IF /\ \A i \in 1..Len(series) : IsNumericCell(series[i][2])
            /\ \E l \in index : ~HasKey(series, l)
         THEN AsFloat(DictGet(series, label))
         ELSE DictGet(series, label)

(* pd.DataFrame.from_dict(D): one column per key of D, one row per label of
   any of the Series. *)
from_dict(frames) ==
    LET index == UNION {Range(DictKeys(frames[i][2])) : i \in 1..Len(frames)}
    IN  [table |->
            [index |-> index,
             columns |-> [i \in 1..Len(frames) |->
                            <<frames[i][1], [l \in index |-> Cell(frames[i][2], l, index)]>>]]]

InitMetrics ==
    /\ list_of_assets \in MetricAssetLists
    /\ flatten_df \in BOOLEAN
    /\ D = <<>>
    /\ requests = <<>>
    /\ responses = <<>>
    /\ result = Pending
    /\ start_date = None
    /\ end_date = None
    /\ asset_data = <<>>
    /\ padded = FALSE
    /\ IdleFlatten

(* One iteration of the for loop: one request, then D[asset] or a raise. *)
FetchMetrics ==
    /\ result = Pending
    /\ Len(responses) < Len(list_of_assets)
    /\ \E response \in MetricsResponses :
        /\ requests' = Append(requests, get_asset_metrics(list_of_assets[Len(responses) + 1]))
        /\ responses' = Append(responses, response)
        /\ IF Raised(MetricsIteration(response, flatten_df))
           THEN /\ result' = MetricsIteration(response, flatten_df)
                /\ UNCHANGED D
           ELSE /\ D' = DictSet(D, list_of_assets[Len(responses) + 1],
                                MetricsIteration(response, flatten_df).ret)
                /\ UNCHANGED result
    /\ UNCHANGED <<flatten_df, priceVars, flattenVars>>

(* return pd.DataFrame.from_dict(D) *)
AssembleMetrics ==
    /\ result = Pending
    /\ Len(responses) = Len(list_of_assets)
    /\ result' = from_dict(D)
    /\ UNCHANGED <<requests, responses, metricsVars, priceVars, flattenVars>>

NextMetrics == FetchMetrics \/ AssembleMetrics

SpecMetrics == InitMetrics /\ [][NextMetrics]_vars

----------------------------------------------------------------------------
(* Properties of get_assets_metrics_pd, under SpecMetrics *)

(* The leaves of a nested mapping, each with the path of keys leading to it. *)
RECURSIVE LeafPaths(_)
LeafPaths(mapping) ==
    UNION { IF IsMapping(mapping[i][2])
            THEN {<<(<<mapping[i][1]>> \o e[1]), e[2]>> : e \in LeafPaths(mapping[i][2].map)}
            ELSE {<< <<mapping[i][1]>>, mapping[i][2] >>}
            : i \in 1..Len(mapping) }

(* sep.join(path) *)
RECURSIVE Join(_, _)
Join(path, sep) ==
    IF Len(path) = 1 THEN path[1] ELSE path[1] \o sep \o Join(Tail(path), sep)

LastAsset == list_of_assets[Len(responses)]
LastResponse == responses[Len(responses)]

(* The last iteration received a record and stored its Series in D. *)
RecordStored ==
    /\ Len(responses) >= 1
    /\ "json" \in DOMAIN LastResponse
    /\ "data" \in DOMAIN LastResponse.json
    /\ IsMapping(LastResponse.json.data)
    /\ HasKey(D, LastAsset)

IntOrFloatLeaves ==
    {e \in LeafPaths(LastResponse.json.data.map) : e[2].kind \in {"int", "float"}}

(* C5: with flattening enabled, the record stored for an asset holds exactly
   the leaves of its response that are integers or floats, each under its
   separator-joined path with its value; null, string, boolean and list
   leaves are dropped. *)
C5_OnlyIntAndFloatKept ==
    (flatten_df /\ RecordStored) =>
        /\ Range(DictKeys(DictGet(D, LastAsset))) = {Join(e[1], SEP) : e \in IntOrFloatLeaves}
        /\ \A e \in IntOrFloatLeaves :
            /\ HasKey(DictGet(D, LastAsset), Join(e[1], SEP))
            /\ DictGet(DictGet(D, LastAsset), Join(e[1], SEP)).v = e[2].v

(* The cell holds the value v: the same object, or the same number (an
   integer may be stored as the equal float). *)
SameValue(cell, v) ==
    /\ cell # NaN
    /\ IF IsMapping(v) \/ IsMapping(cell) THEN cell = v
       ELSE /\ cell.v = v.v
            /\ cell.kind = v.kind \/ (v.kind = "int" /\ cell.kind = "float")

(* C10: in the metrics table every field of any asset's record is a row; an
   asset's cell holds the missing-value marker exactly where its record lacks
   the field (never zero, never another asset's value), and the value of its
   record, unaltered, where it has the field. *)
C10_AbsentFieldsAreMissing ==
    IsTable(result) =>
        /\ Index = UNION {Range(DictKeys(D[i][2])) : i \in 1..Len(D)}
        /\ DictKeys(Columns) = DictKeys(D)
        /\ \A i \in 1..Len(Columns) : \A label \in Index :
            IF HasKey(D[i][2], label)
            THEN SameValue(Columns[i][2][label], DictGet(D[i][2], label))
            ELSE Columns[i][2][label] = NaN

C10_Witness ==
    /\ IsTable(result)
    /\ flatten_df
    /\ list_of_assets = <<"A", "B">>
    /\ responses[1].json.data.map = << <<<<"p">>, [kind |-> "str", v |-> 0]>> >>
    /\ responses[2].json.data.map = << <<<<"p">>, [kind |-> "int", v |-> 7]>> >>
    /\ ColumnOf("A")[<<"p">>] = NaN
    /\ ColumnOf("B")[<<"p">>].v = 7

====
